---- MODULE Spec2Model ----
(***************************************************************************)
(* Model of the CityScout page controller (static/js/app.js).              *)
(*                                                                         *)
(* JSON values are tagged records [t, v]: t is the JavaScript type and v   *)
(* the number carried (0 when there is none).  Populations and incomes are *)
(* whole numbers; percentages are carried in tenths (3.2 is v = 32), so    *)
(* the comparisons of generateInsights are scaled by ten.  Strings are     *)
(* TLA+ strings, except the two form fields, which are sequences of        *)
(* one-character strings so that trim() can be computed.                   *)
(*                                                                         *)
(* Left out: toggleJsonDisplay, the analysisDate text (it depends on the   *)
(* clock only) and the styles of the button's text and spinner, which      *)
(* follow analyzeBtn.disabled.  The page starts with nothing displayed and *)
(* the button enabled.                                                     *)
(***************************************************************************)
EXTENDS Integers, Sequences, FiniteSets, TLC

VARIABLES
    cityValue,          \* value of the #city input
    stateValue,         \* value of the #state input
    pending,            \* analyzeCity calls suspended at an await, oldest first
    loadingDisplay,     \* this.loading.style.display
    analyzeBtnDisabled, \* this.analyzeBtn.disabled
    errorDisplay,       \* this.error.style.display
    errorText,          \* this.error.textContent
    resultsDisplay,     \* this.results.style.display
    dom,                \* textContent of the result elements
    outcome             \* the branch the last analyzeCity step took, and the
                        \* value of its local `data` where it was assigned

vars == <<cityValue, stateValue, pending, loadingDisplay, analyzeBtnDisabled,
          errorDisplay, errorText, resultsDisplay, dom, outcome>>

(***************************************************************************)
(* Bounds                                                                  *)
(***************************************************************************)
MaxInFlight == 2

(***************************************************************************)
(* JavaScript values                                                       *)
(***************************************************************************)
Undefined == [t |-> "undefined", v |-> 0]

Null == [t |-> "null", v |-> 0]

Num(n) == [t |-> "number", v |-> n]

\* a JSON string holding a number, e.g. "3.2"
Str(n) == [t |-> "string", v |-> n]

\* ToBoolean on a modelled value (numeric strings are non-empty)
Truthy(x) == \/ x.t = "number" /\ x.v # 0
             \/ x.t = "string"

\* a || b
Or(a, b) == IF Truthy(a) THEN a ELSE b

nationalMedian == 70000

Whitespace == {" ", "\t"}

RECURSIVE trimStart(_)
trimStart(s) ==
    IF s # <<>> /\ Head(s) \in Whitespace THEN trimStart(Tail(s)) ELSE s

RECURSIVE trimEnd(_)
trimEnd(s) ==
    IF s # <<>> /\ s[Len(s)] \in Whitespace
    THEN trimEnd(SubSeq(s, 1, Len(s) - 1))
    ELSE s

\* no trimming at all
trimNothing(s) == s

\* String.prototype.trim
trim(s) == trimEnd(trimStart(s))

(***************************************************************************)
(* Formatters                                                              *)
(***************************************************************************)
\* Number-to-string of k / 10 for a natural k: "2.4", and "45" for 45.0
tenthsToString(k) ==
    IF k % 10 = 0
    THEN ToString(k \div 10)
    ELSE ToString(k \div 10) \o "." \o ToString(k % 10)

\* Math.floor in place of Math.round
mathFloor(n, d) == n \div d

\* Math.round(n / d) for naturals: halves round up
mathRound(n, d) == (2 * n + d) \div (2 * d)

\* three digits of a group after the first
pad3(n) ==
    IF n < 10 THEN "00" \o ToString(n)
    ELSE IF n < 100 THEN "0" \o ToString(n)
    ELSE ToString(n)

\* en-US grouping of a natural number
RECURSIVE groupThousands(_)
groupThousands(n) ==
    IF n < 1000
    THEN ToString(n)
    ELSE groupThousands(n \div 1000) \o "," \o pad3(n % 1000)

formatNumber(num) ==
    IF ~Truthy(num) THEN "N/A"
    ELSE IF num.v >= 1000000 THEN tenthsToString(mathRound(num.v, 100000)) \o "M"
    ELSE IF num.v >= 1000 THEN tenthsToString(mathRound(num.v, 100)) \o "K"
    ELSE groupThousands(num.v)

formatCurrency(amount) ==
    IF ~Truthy(amount) THEN "N/A"
    ELSE "$" \o groupThousands(amount.v)

\* value.toFixed(1) of a number carried in tenths
toFixed1(tenths) ==
    IF tenths < 0
    THEN "-" \o ToString((-tenths) \div 10) \o "." \o ToString((-tenths) % 10)
    ELSE ToString(tenths \div 10) \o "." \o ToString(tenths % 10)

\* value.toFixed is not a function: only numbers have it
toFixedThrows(value) == value.t = "string"

\* undefined where toFixedThrows(value)
formatPercentage(value) ==
    CASE value.t \in {"undefined", "null"} -> "N/A"
      [] value.t = "number" -> toFixed1(value.v) \o "%"

abs(n) == IF n < 0 THEN -n ELSE n

\* ToNumber for the relational operators (null is 0)
toNumber(x) == x.v

(***************************************************************************)
(* Insights                                                                *)
(***************************************************************************)
populationInsight(data) ==
    IF Truthy(Or(data.total_population, data.population))
    THEN LET population == Or(data.total_population, data.population)
             n == toNumber(population)
         IN  IF n > 1000000
             THEN <<data.city \o " is a major metropolitan area with "
                    \o formatNumber(population) \o " residents.">>
             ELSE IF n > 500000
             THEN <<data.city \o " is a substantial city with "
                    \o formatNumber(population) \o " residents.">>
             ELSE IF n > 100000
             THEN <<data.city \o " is a mid-size city with "
                    \o formatNumber(population) \o " residents.">>
             ELSE <<data.city \o " is a smaller city with "
                    \o formatNumber(population) \o " residents.">>
    ELSE <<>>

growthInsight(data) ==
    IF data.population_growth_5yr # Undefined
    THEN LET growth == data.population_growth_5yr
             g == toNumber(growth)
         IN  IF g > 100
             THEN <<"Rapid population growth of " \o formatPercentage(growth)
                    \o " over the past 5 years.">>
             ELSE IF g > 50
             THEN <<"Strong population growth of " \o formatPercentage(growth)
                    \o " over the past 5 years.">>
             ELSE IF g > 0
             THEN <<"Moderate population growth of " \o formatPercentage(growth)
                    \o " over the past 5 years.">>
             ELSE IF g < 0
             THEN <<"Population decline of " \o formatPercentage(Num(abs(g)))
                    \o " over the past 5 years.">>
             ELSE <<"Population has remained stable over the past 5 years.">>
    ELSE <<>>

incomeInsight(data) ==
    IF Truthy(data.median_household_income)
    THEN LET income == data.median_household_income
             i == toNumber(income)
         IN  IF 10 * i > nationalMedian * 13
             THEN <<"Median household income of " \o formatCurrency(income)
                    \o " is significantly above national average.">>
             ELSE IF 10 * i > nationalMedian * 11
             THEN <<"Median household income of " \o formatCurrency(income)
                    \o " is above national average.">>
             ELSE IF 10 * i < nationalMedian * 8
             THEN <<"Median household income of " \o formatCurrency(income)
                    \o " is below national average.">>
             ELSE <<"Median household income of " \o formatCurrency(income)
                    \o " is close to national average.">>
    ELSE <<>>

\* the "Low" bucket left out
unemploymentInsightNoLow(data) ==
    IF data.unemployment_rate # Undefined
    THEN LET unemployment == data.unemployment_rate
             u == toNumber(unemployment)
         IN  IF u < 30
             THEN <<"Very low unemployment rate of "
                    \o formatPercentage(unemployment) \o ".">>
             ELSE IF u > 80
             THEN <<"Higher unemployment rate of "
                    \o formatPercentage(unemployment) \o ".">>
             ELSE <<"Unemployment rate of " \o formatPercentage(unemployment)
                    \o " is around national average.">>
    ELSE <<>>

unemploymentInsight(data) ==
    IF data.unemployment_rate # Undefined
    THEN LET unemployment == data.unemployment_rate
             u == toNumber(unemployment)
         IN  IF u < 30
             THEN <<"Very low unemployment rate of "
                    \o formatPercentage(unemployment) \o ".">>
             ELSE IF u < 50
             THEN <<"Low unemployment rate of "
                    \o formatPercentage(unemployment) \o ".">>
             ELSE IF u > 80
             THEN <<"Higher unemployment rate of "
                    \o formatPercentage(unemployment) \o ".">>
             ELSE <<"Unemployment rate of " \o formatPercentage(unemployment)
                    \o " is around national average.">>
    ELSE <<>>

NoInsights == "No specific insights available with current data."

\* the texts of the .insight-item children of #insights, in order
generateInsights(data) ==
    LET insights == populationInsight(data) \o growthInsight(data)
                    \o incomeInsight(data) \o unemploymentInsight(data)
    IN  IF Len(insights) = 0 THEN <<NoInsights>> ELSE insights

(***************************************************************************)
(* displayResults: the result elements after the call, and whether it      *)
(* threw.  A throw leaves the assignments made before it in place.         *)
(***************************************************************************)
displayResults(d, data) ==
    IF data.t # "object"
    THEN [dom |-> d, threw |-> TRUE]
    ELSE
    LET d1 == [d EXCEPT
                 !.cityName = data.city \o ", " \o data.state,
                 !.population =
                     formatNumber(Or(data.total_population, data.population))]
    IN  IF toFixedThrows(data.population_growth_5yr)
        THEN [dom |-> d1, threw |-> TRUE]
        ELSE
        LET d2 == [d1 EXCEPT
                     !.growth = formatPercentage(data.population_growth_5yr),
                     !.income = formatCurrency(data.median_household_income)]
        IN  IF toFixedThrows(data.unemployment_rate)
            THEN [dom |-> d2, threw |-> TRUE]
            ELSE [dom |-> [d2 EXCEPT
                             !.unemployment =
                                 formatPercentage(data.unemployment_rate),
                             !.insights = generateInsights(data),
                             !.jsonData = data],
                  threw |-> FALSE]

(***************************************************************************)
(* Inputs: what the user can type and what the service can answer          *)
(***************************************************************************)
CityInputs == {<<>>, <<" ", " ">>, <<" ", "A", " ", "B", "\t">>}

StateInputs == {<<"\t">>, <<"T", "X">>}

Springfield ==
    [t |-> "object", city |-> "Springfield", state |-> "IL",
     total_population |-> Num(114000), population |-> Undefined,
     population_growth_5yr |-> Num(32),
     median_household_income |-> Num(65000),
     unemployment_rate |-> Num(41)]

AllAbsent ==
    [t |-> "object", city |-> "Springfield", state |-> "IL",
     total_population |-> Undefined, population |-> Undefined,
     population_growth_5yr |-> Undefined,
     median_household_income |-> Undefined,
     unemployment_rate |-> Undefined]

PopulationValues ==
    {0, 850, 1050, 45000, 600000, 999950, 1000000, 2350000}

GrowthValues == {0, -15, 75, 120}

IncomeValues == {0, 50000, 56000, 80000, 95000}

UnemploymentValues == {0, 60, 90}

\* every field absent, null or as in the Springfield answer
BasicRecords ==
    {[Springfield EXCEPT !.total_population = p,
                         !.population_growth_5yr = g,
                         !.median_household_income = i,
                         !.unemployment_rate = u] :
        p \in {Undefined, Null, Num(114000)},
        g \in {Undefined, Null, Num(32)},
        i \in {Undefined, Null, Num(65000)},
        u \in {Undefined, Null, Num(41)}}

\* one field varied in an otherwise full or otherwise empty record
VariedRecords ==
    UNION {
        {[b EXCEPT !.total_population = Num(n)] : n \in PopulationValues}
        \cup {[b EXCEPT !.population_growth_5yr = Num(n)] : n \in GrowthValues}
        \cup {[b EXCEPT !.median_household_income = Num(n)] : n \in IncomeValues}
        \cup {[b EXCEPT !.unemployment_rate = Num(n)] : n \in UnemploymentValues}
        \cup {[b EXCEPT !.total_population = Num(0), !.population = Num(850)],
              [b EXCEPT !.city = "Austin", !.state = "TX"]}
        : b \in {Springfield, AllAbsent}}

\* percentages sent as JSON strings
StringRecords ==
    {[Springfield EXCEPT !.population_growth_5yr = Str(32),
                         !.total_population = Num(45000)],
     [Springfield EXCEPT !.unemployment_rate = Str(41),
                         !.median_household_income = Num(80000)]}

Records == BasicRecords \cup VariedRecords \cup StringRecords

NoData == [t |-> "undefined"]

NoError == [t |-> "undefined", s |-> ""]

ErrorString(s) == [t |-> "string", s |-> s]

\* the values response.json() can resolve to
Responses ==
    {[t |-> "object", success |-> TRUE, data |-> d, error |-> NoError] :
        d \in Records \cup {NoData}}
    \cup {[t |-> "object", success |-> FALSE, data |-> NoData, error |-> e] :
        e \in {NoError, ErrorString(""), ErrorString("City not found")}}
    \cup {[t |-> "null"]}

ValidationMessage == "Please enter both city and state."

DefaultMessage == "An error occurred while analyzing the city."

NetworkMessage == "Network error. Please check your connection and try again."

(***************************************************************************)
(* Display helpers                                                         *)
(***************************************************************************)
\* the indicator shown but the button left enabled
showLoadingNoDisable ==
    /\ loadingDisplay' = "block"
    /\ UNCHANGED analyzeBtnDisabled

showLoading ==
    /\ loadingDisplay' = "block"
    /\ analyzeBtnDisabled' = TRUE

\* the indicator hidden but the button left disabled
hideLoadingNoEnable ==
    /\ loadingDisplay' = "none"
    /\ UNCHANGED analyzeBtnDisabled

hideLoading ==
    /\ loadingDisplay' = "none"
    /\ analyzeBtnDisabled' = FALSE

\* the element shown without its text being replaced
showErrorKeepText(message) ==
    /\ errorDisplay' = "block"
    /\ UNCHANGED errorText

showError(message) ==
    /\ errorText' = message
    /\ errorDisplay' = "block"

hideError == errorDisplay' = "none"

showResults == resultsDisplay' = "block"

hideResults == resultsDisplay' = "none"

(***************************************************************************)
(* The page as loaded: nothing displayed, the button enabled               *)
(***************************************************************************)
NoResponse == [t |-> "unassigned"]

Branch(name, data) == [branch |-> name, data |-> data]

EmptyDom ==
    [cityName |-> "", population |-> "", growth |-> "", income |-> "",
     unemployment |-> "", insights |-> <<>>, jsonData |-> NoData]

Init ==
    /\ cityValue = <<>>
    /\ stateValue = <<"\t">>
    /\ pending = <<>>
    /\ loadingDisplay = "none"
    /\ analyzeBtnDisabled = FALSE
    /\ errorDisplay = "none"
    /\ errorText = ""
    /\ resultsDisplay = "none"
    /\ dom = EmptyDom
    /\ outcome = Branch("none", NoResponse)

(***************************************************************************)
(* Actions                                                                 *)
(***************************************************************************)
\* the user edits the two form fields
userInput(c, s) ==
    /\ <<c, s>> # <<cityValue, stateValue>>
    /\ cityValue' = c
    /\ stateValue' = s
    /\ UNCHANGED <<pending, loadingDisplay, analyzeBtnDisabled, errorDisplay,
                   errorText, resultsDisplay, dom, outcome>>

\* analyzeCity up to its first await
analyzeCity ==
    LET city == trim(cityValue)
        state == trim(stateValue)
    IN  IF city = <<>> \/ state = <<>>
        THEN /\ showError(ValidationMessage)
             /\ outcome' = Branch("validation", NoResponse)
             /\ UNCHANGED <<cityValue, stateValue, pending, loadingDisplay,
                            analyzeBtnDisabled, resultsDisplay, dom>>
        ELSE /\ showLoading
             /\ hideError
             /\ hideResults
             /\ pending' = Append(pending,
                                  [city |-> city, state |-> state, pc |-> "fetch"])
             /\ outcome' = Branch("loading", NoResponse)
             /\ UNCHANGED <<cityValue, stateValue, errorText, dom>>

\* a disabled submit button submits nothing
submitControlEnabled == ~analyzeBtnDisabled

\* the form's submit listener
submit ==
    /\ submitControlEnabled
    /\ Len(pending) < MaxInFlight
    /\ analyzeCity

RemoveAt(seq, i) == SubSeq(seq, 1, i - 1) \o SubSeq(seq, i + 1, Len(seq))

\* a catch block that only logs
catchFinallyLogOnly(i, branch, data) ==
    /\ hideLoading
    /\ pending' = RemoveAt(pending, i)
    /\ outcome' = Branch(branch, data)
    /\ UNCHANGED <<cityValue, stateValue, resultsDisplay, errorDisplay,
                   errorText>>

\* the catch block followed by the finally block
catchFinally(i, branch, data) ==
    /\ showError(NetworkMessage)
    /\ hideLoading
    /\ pending' = RemoveAt(pending, i)
    /\ outcome' = Branch(branch, data)
    /\ UNCHANGED <<cityValue, stateValue, resultsDisplay>>

\* fetch resolves: response.json() is called and awaited
fetchResolve(i) ==
    /\ pending[i].pc = "fetch"
    /\ pending' = [pending EXCEPT ![i].pc = "json"]
    /\ UNCHANGED <<cityValue, stateValue, loadingDisplay, analyzeBtnDisabled,
                   errorDisplay, errorText, resultsDisplay, dom, outcome>>

\* fetch rejects
fetchReject(i) ==
    /\ pending[i].pc = "fetch"
    /\ catchFinally(i, "fetchReject", NoResponse)
    /\ UNCHANGED dom

\* response.json() rejects: the body is not JSON
jsonReject(i) ==
    /\ pending[i].pc = "json"
    /\ catchFinally(i, "jsonReject", NoResponse)
    /\ UNCHANGED dom

\* response.json() resolves to data: the rest of the try block, then finally
jsonResolve(i, data) ==
    /\ pending[i].pc = "json"
    /\ IF data.t # "object"
       THEN /\ catchFinally(i, "responseThrow", data)
            /\ UNCHANGED dom
       ELSE IF data.success
       THEN LET r == displayResults(dom, data.data)
            IN  /\ dom' = r.dom
                /\ IF r.threw
                   THEN catchFinally(i, "renderThrow", data)
                   ELSE /\ showResults
                        /\ hideLoading
                        /\ pending' = RemoveAt(pending, i)
                        /\ outcome' = Branch("results", data)
                        /\ UNCHANGED <<cityValue, stateValue, errorDisplay,
                                       errorText>>
       ELSE /\ showError(IF data.error.t = "string" /\ data.error.s # ""
                         THEN data.error.s
                         ELSE DefaultMessage)
            /\ hideLoading
            /\ pending' = RemoveAt(pending, i)
            /\ outcome' = Branch("appError", data)
            /\ UNCHANGED <<cityValue, stateValue, resultsDisplay, dom>>

Next ==
    \/ \E c \in CityInputs, s \in StateInputs : userInput(c, s)
    \/ submit
    \/ \E i \in 1..Len(pending) : fetchResolve(i)
    \/ \E i \in 1..Len(pending) : fetchReject(i)
    \/ \E i \in 1..Len(pending) : jsonReject(i)
    \/ \E i \in 1..Len(pending), data \in Responses : jsonResolve(i, data)

Spec == Init /\ [][Next]_vars

TypeOK ==
    /\ loadingDisplay \in {"none", "block"}
    /\ errorDisplay \in {"none", "block"}
    /\ resultsDisplay \in {"none", "block"}
    /\ analyzeBtnDisabled \in BOOLEAN
    /\ Len(pending) <= MaxInFlight

(***************************************************************************)
(* Properties                                                              *)
(***************************************************************************)
Completed ==
    {"fetchReject", "jsonReject", "responseThrow", "renderThrow", "appError",
     "results"}

\* the record of the last answer, where the last step rendered it
Rendered == outcome.data.data

\* the population the page shows: total_population, else population
ShownPopulation == Or(Rendered.total_population, Rendered.population)

IsBlank(s) == \A k \in 1..Len(s) : s[k] \in Whitespace

Absent(x) == x \in {Undefined, Null}

\* C1: the Results panel and the Error message are never both displayed,
\* whatever the sequence of submissions and service outcomes.
C1_ResultsErrorExclusive ==
    ~(resultsDisplay = "block" /\ errorDisplay = "block")

\* C2: once the service call of a submission has completed in any way (an
\* answer, a success:false answer, a rejection of fetch or of JSON parsing,
\* a throw while rendering) the loading indicator is hidden and the submit
\* button is enabled.
C2_LoadingCleared ==
    outcome.branch \in Completed =>
        loadingDisplay = "none" /\ ~analyzeBtnDisabled

C2_Witness ==
    /\ outcome.branch = "fetchReject"
    /\ loadingDisplay = "none"
    /\ ~analyzeBtnDisabled

\* C3: at most one analysis request is in flight, and while one is in flight
\* the submit button is disabled, so a completion never leaves the button
\* enabled with another request pending.
C3_OneInFlight ==
    /\ Len(pending) <= 1
    /\ pending # <<>> => analyzeBtnDisabled /\ loadingDisplay = "block"

C3_Witness ==
    /\ Len(pending) = 1
    /\ pending[1].pc = "json"
    /\ analyzeBtnDisabled

\* C4: a call of analyzeCity issues exactly one request when city and state
\* are both non-blank, carrying the values without surrounding whitespace;
\* when either is empty or whitespace-only it issues none, shows
\* 'Please enter both city and state.' and does not enter loading.
C4_OneRequestPerValidCall ==
    [][analyzeCity =>
        IF IsBlank(cityValue) \/ IsBlank(stateValue)
        THEN /\ pending' = pending
             /\ errorDisplay' = "block"
             /\ errorText' = "Please enter both city and state."
             /\ loadingDisplay' = "none"
             /\ ~analyzeBtnDisabled'
        ELSE /\ Len(pending') = Len(pending) + 1
             /\ SubSeq(pending', 1, Len(pending)) = pending
             /\ LET body == pending'[Len(pending')]
                IN  /\ body.pc = "fetch"
                    /\ ~IsBlank(<<Head(body.city)>>)
                    /\ ~IsBlank(<<body.city[Len(body.city)]>>)
                    /\ ~IsBlank(<<Head(body.state)>>)
                    /\ ~IsBlank(<<body.state[Len(body.state)]>>)
             /\ loadingDisplay' = "block"
    ]_vars

C4_Witness ==
    /\ outcome.branch = "validation"
    /\ cityValue = <<" ", " ">>
    /\ stateValue = <<"T", "X">>
    /\ errorDisplay = "block"
    /\ errorText = ValidationMessage
    /\ pending = <<>>

\* C5: after a success:false answer the error text is the service's error
\* string, or 'An error occurred while analyzing the city.' when none is
\* given, and the Results panel is hidden from the submission until the next.
C5_ApplicationError ==
    /\ outcome.branch = "appError" =>
        /\ errorDisplay = "block"
        /\ outcome.data.error = ErrorString("City not found")
             => errorText = "City not found"
        /\ outcome.data.error = NoError
             => errorText = "An error occurred while analyzing the city."
    /\ outcome.branch \in {"loading", "appError"} => resultsDisplay = "none"

C5_Witness ==
    /\ outcome.branch = "appError"
    /\ outcome.data.error = ErrorString("City not found")
    /\ errorText = "City not found"
    /\ dom.jsonData # NoData

\* C6: for population, growth, income and unemployment an omitted field
\* renders as 'N/A' and a field present with value 0 renders as its formatted
\* zero, never as 'N/A'.
C6_ZeroIsNotMissing ==
    outcome.branch = "results" =>
        /\ (Rendered.total_population = Undefined
              /\ Rendered.population = Undefined) => dom.population = "N/A"
        /\ ShownPopulation = Num(0) => dom.population = "0"
        /\ Rendered.population_growth_5yr = Undefined => dom.growth = "N/A"
        /\ Rendered.population_growth_5yr = Num(0) => dom.growth = "0.0%"
        /\ Rendered.median_household_income = Undefined => dom.income = "N/A"
        /\ Rendered.median_household_income = Num(0) => dom.income = "$0"
        /\ Rendered.unemployment_rate = Undefined => dom.unemployment = "N/A"
        /\ Rendered.unemployment_rate = Num(0) => dom.unemployment = "0.0%"

\* round(value / unit) / 10 as JavaScript prints it
RoundedTenths(value, unit) ==
    LET k == CHOOSE j \in 0..(value \div unit + 1) :
                 2 * unit * j - unit <= 2 * value /\ 2 * value < 2 * unit * j + unit
    IN  tenthsToString(k)

C7_GeneralRule ==
    LET n == ShownPopulation.v
    IN  /\ n >= 1000000 => dom.population = RoundedTenths(n, 100000) \o "M"
        /\ (n >= 1000 /\ n < 1000000)
             => dom.population = RoundedTenths(n, 100) \o "K"
        /\ (n > 0 /\ n < 1000) => dom.population = ToString(n)

\* C7 as stated: 2350000 renders as '23.5M', 45000 as '45.0K', 850 as '850',
\* and the general rule.
C7_Original ==
    (outcome.branch = "results" /\ ShownPopulation.t = "number") =>
        /\ ShownPopulation.v = 2350000 => dom.population = "23.5M"
        /\ ShownPopulation.v = 45000 => dom.population = "45.0K"
        /\ ShownPopulation.v = 850 => dom.population = "850"
        /\ C7_GeneralRule

\* C7 amended: 2350000 renders as '2.4M', 45000 as '45K', 850 as '850'; a
\* value >= 1,000,000 renders as round(value/100000)/10 printed as a
\* JavaScript number (no trailing '.0') followed by 'M', a value >= 1,000
\* and < 1,000,000 as round(value/100)/10 followed by 'K', a smaller
\* positive value without suffix.
C7_FormatNumber ==
    (outcome.branch = "results" /\ ShownPopulation.t = "number") =>
        /\ ShownPopulation.v = 2350000 => dom.population = "2.4M"
        /\ ShownPopulation.v = 45000 => dom.population = "45K"
        /\ ShownPopulation.v = 850 => dom.population = "850"
        /\ ShownPopulation.v = 999950 => dom.population = "1000K"
        /\ ShownPopulation.v = 1050 => dom.population = "1.1K"
        /\ C7_GeneralRule

C7_Witness ==
    /\ outcome.branch = "results"
    /\ ShownPopulation = Num(2350000)
    /\ dom.population = "2.4M"

SpringfieldFirstThree ==
    <<"Springfield is a mid-size city with 114K residents.",
      "Moderate population growth of 3.2% over the past 5 years.",
      "Median household income of $65,000 is close to national average.">>

\* C8 as stated: the Springfield record yields the mid-size, moderate-growth,
\* close-to-average income and around-average unemployment sentences.
C8_Original ==
    (outcome.branch = "results" /\ Rendered = Springfield) =>
        dom.insights = SpringfieldFirstThree
            \o <<"Unemployment rate of 4.1% is around national average.">>

\* C8 amended: the Springfield record yields exactly four insights in the
\* order population, growth, income, employment: mid-size city, moderate
\* growth, income close to national average, and the low-unemployment
\* sentence (4.1 is below 5).
C8_SpringfieldInsights ==
    (outcome.branch = "results" /\ Rendered = Springfield) =>
        dom.insights = SpringfieldFirstThree
            \o <<"Low unemployment rate of 4.1%.">>

C8_Witness ==
    /\ outcome.branch = "results"
    /\ Rendered = Springfield
    /\ Len(dom.insights) = 4
    /\ resultsDisplay = "block"

\* the tracked fields of the rendered record that are present
PresentFields ==
    {f \in {"population", "growth", "income", "unemployment"} :
        \/ f = "population" /\ ~Absent(ShownPopulation)
        \/ f = "growth" /\ ~Absent(Rendered.population_growth_5yr)
        \/ f = "income" /\ ~Absent(Rendered.median_household_income)
        \/ f = "unemployment" /\ ~Absent(Rendered.unemployment_rate)}

\* C9: a rule whose field is absent (undefined or null) emits no sentence, so
\* there are no more sentences than present fields and none interpolates
\* 'N/A'; with all four fields absent the list is the single sentence
\* 'No specific insights available with current data.'.
C9_AbsentFieldsSkipped ==
    outcome.branch = "results" =>
        /\ PresentFields # {} => Len(dom.insights) <= Cardinality(PresentFields)
        /\ \A k \in 1..Len(dom.insights) :
               dom.insights[k] # "Very low unemployment rate of N/A."
        /\ PresentFields = {} =>
               dom.insights =
                   <<"No specific insights available with current data.">>

\* C10: every exception raised inside the try block, not only a transport
\* failure, surfaces the network-error message: when a success:true answer
\* cannot be rendered (its data record is missing), that message is shown,
\* the Results panel stays hidden and loading is cleared.
C10_EveryThrowIsNetworkError ==
    LET threw ==
            \/ outcome.branch \in {"fetchReject", "jsonReject"}
            \/ outcome.data.t = "null"
            \/ /\ outcome.data.t = "object"
               /\ outcome.data.success
               /\ Rendered \in {NoData} \cup StringRecords
    IN  threw =>
            /\ errorDisplay = "block"
            /\ errorText =
                 "Network error. Please check your connection and try again."
            /\ resultsDisplay = "none"
            /\ loadingDisplay = "none"
            /\ ~analyzeBtnDisabled

C10_Witness ==
    /\ outcome.data.t = "object"
    /\ outcome.data.success
    /\ Rendered = NoData
    /\ errorText = NetworkMessage
    /\ dom.jsonData # NoData

====
